---- MODULE Spec2Model ----
(***************************************************************************)
(* Model of the mandelbrot plotter (src/src/main.rs): the band scheduler   *)
(* of main, the render tasks it spawns inside crossbeam::scope, and the    *)
(* pure functions pixel_to_point and escape_time.                          *)
(*                                                                         *)
(* f64 is modelled as a binary floating-point format with a MantBits-bit   *)
(* significand, round-to-nearest-even after every operation and gradual    *)
(* underflow below 2^-FracBits.  A float is held as the integer            *)
(* value * 2^FracBits.  Magnitudes stay far below the overflow threshold,  *)
(* as they do in the program, so infinities are not modelled.              *)
(***************************************************************************)
EXTENDS Integers, Sequences, FiniteSets, TLC

\* ---------------------------------------------------------------- bounds
MaxWidth == 2
MaxHeight == 3
MaxThreads == 4
MaxLimit == 4

\* ------------------------------------------------------- f64 arithmetic
MantBits == 8
FracBits == 11

Pow2(n) == 2 ^ n

One == Pow2(FracBits)

Abs(x) == IF x < 0 THEN -x ELSE x

Sign(x) == IF x < 0 THEN -1 ELSE 1

\* the largest exponent of a quantum (products stay below 2^31)
MaxQuantumExp == 30 - MantBits

\* least k >= 0 with q < 2^(MantBits + k): the exponent of the quantum of q
QuantumExp(q) ==
  CHOOSE k \in 0..MaxQuantumExp :
    /\ q < Pow2(MantBits + k)
    /\ k > 0 => q >= Pow2(MantBits + k - 1)

\* a / d rounded to the nearest integer, ties to even (a >= 0, d > 0)
RoundHalfEven(a, d) ==
  LET f == a \div d
      r == a % d
  IN  IF 2 * r < d THEN f
      ELSE IF 2 * r > d THEN f + 1
      ELSE IF f % 2 = 0 THEN f ELSE f + 1

\* a / den (a >= 0, den > 0) rounded to MantBits significant bits
RoundTo(a, den) ==
  CHOOSE r \in { RoundHalfEven(a, den * Pow2(k)) * Pow2(k) :
                   k \in {QuantumExp(a \div den)} } : TRUE

\* the float nearest to the rational num / den (den > 0), in units of
\* 2^-FracBits; the arguments are bound to n and d so that each is evaluated
\* once
Rnd(num, den) ==
  CHOOSE r \in { Sign(n) * RoundTo(Abs(n), d) : n \in {num}, d \in {den} } : TRUE

FAdd(x, y) == Rnd(x + y, 1)

FSub(x, y) == Rnd(x - y, 1)

FMul(x, y) == Rnd(x * y, One)

\* y # 0 at every call the program makes with positive bounds
FDiv(x, y) == Rnd(Sign(y) * x * One, Abs(y))

\* `n as f64` for a usize n
FromInt(n) == Rnd(n * One, 1)

\* f64::from_str of the decimal n / d
Dec(n, d) == Rnd(n * One, d)

Four == FromInt(4)

\* num::Complex<f64>
Cx(re, im) == [re |-> re, im |-> im]

CAdd(a, b) == Cx(FAdd(a.re, b.re), FAdd(a.im, b.im))

CMul(a, b) == Cx(FSub(FMul(a.re, b.re), FMul(a.im, b.im)),
                 FAdd(FMul(a.re, b.im), FMul(a.im, b.re)))

NormSqr(a) == FAdd(FMul(a.re, a.re), FMul(a.im, a.im))

\* ------------------------------------------------------------ Option<u32>
None == <<>>

Some(i) == <<i>>

\* ------------------------------------------------------------ escape_time
\* variant of EscapeTest that returns the number of passes, not the index
EscapeTestCountingFromOne(acc2, i) ==
  IF NormSqr(acc2) > Four
  THEN [accumulator |-> acc2, i |-> i, ret |-> Some(i + 1)]
  ELSE [accumulator |-> acc2, i |-> i + 1, ret |-> None]

\* the loop body once the update is done: the test and the return
EscapeTest(acc2, i) ==
  IF NormSqr(acc2) > Four
  THEN [accumulator |-> acc2, i |-> i, ret |-> Some(i)]
  ELSE [accumulator |-> acc2, i |-> i + 1, ret |-> None]

\* one pass of the for-loop body; ret holds the value once `return` ran
\* (the new accumulator is bound to a, so that it is evaluated once)
EscapeStep(st, target) ==
  IF st.ret # None THEN st
  ELSE CHOOSE r \in { EscapeTest(a, st.i) :
                        a \in {CAdd(CMul(st.accumulator, st.accumulator), target)} } : TRUE

\* n passes of the loop body, split in halves to keep the evaluation shallow
\* (a binds the arguments and m the state after the first half, so that each
\* is evaluated once); after `return` the remaining passes do not run
RECURSIVE EscapeIter(_, _, _)
EscapeIter(st, target, n) ==
  IF n = 0 THEN st
  ELSE IF n = 1 THEN EscapeStep(st, target)
  ELSE CHOOSE r \in UNION {
         { EscapeIter(m, a[2], a[4]) : m \in {EscapeIter(a[1], a[2], a[3])} } :
           a \in {<<st, target, n \div 2, n - n \div 2>>} } : TRUE

escape_time(target, limit) ==
  EscapeIter([accumulator |-> Cx(0, 0), i |-> 0, ret |-> None], target, limit).ret

\* ---------------------------------------------------------- pixel_to_point
\* variant of pixel_to_point that divides the row offset by the width
PixelToPointByWidth(bounds, pixel, upper_left, lower_right) ==
  LET width == FSub(lower_right.re, upper_left.re)
      height == FSub(upper_left.im, lower_right.im)
  IN  Cx(FAdd(upper_left.re, FDiv(FMul(FromInt(pixel[1]), width), FromInt(bounds[1]))),
         FSub(upper_left.im, FDiv(FMul(FromInt(pixel[2]), height), FromInt(bounds[1]))))

\* lines 140-148: both coordinates are interpolated between the corners
pixel_to_point(bounds, pixel, upper_left, lower_right) ==
  LET width == FSub(lower_right.re, upper_left.re)
      height == FSub(upper_left.im, lower_right.im)
  IN  Cx(FAdd(upper_left.re, FDiv(FMul(FromInt(pixel[1]), width), FromInt(bounds[1]))),
         FSub(upper_left.im, FDiv(FMul(FromInt(pixel[2]), height), FromInt(bounds[2]))))

\* ------------------------------------------------------------------ render
EscapeLimit == 255

\* `count as u8`
AsU8(n) == n % 256

\* variant of PixelByte that stores the count itself
PixelByteNotInverted(point) ==
  CHOOSE r \in { IF e = None THEN 0 ELSE AsU8(e[1]) :
                   e \in {escape_time(point, EscapeLimit)} } : TRUE

\* the byte render stores for one point
PixelByte(point) ==
  CHOOSE r \in { IF e = None THEN 0 ELSE (255 - AsU8(e[1])) % 256 :
                   e \in {escape_time(point, EscapeLimit)} } : TRUE

\* index of (column, row) in the slice handed to render
PixelIndex(bounds, row, column) == row * bounds[1] + column

\* -------------------------------------------------------------------- main
\* variant of ChunksFrom that also yields the empty remainder
RECURSIVE ChunksWithEmptyTail(_, _, _)
ChunksWithEmptyTail(off, total, size) ==
  IF off > total THEN <<>>
  ELSE <<[off |-> off, len |-> IF total - off < size THEN total - off ELSE size]>>
       \o ChunksWithEmptyTail(off + size, total, size)

\* variant of ChunksFrom whose chunks run one element into the next one
RECURSIVE ChunksOverlapping(_, _, _)
ChunksOverlapping(off, total, size) ==
  IF off >= total THEN <<>>
  ELSE <<[off |-> off, len |-> IF total - off < size + 1 THEN total - off ELSE size + 1]>>
       \o ChunksOverlapping(off + size, total, size)

\* [T]::chunks_mut(size): consecutive chunks of `size` elements, the last
\* one shorter; no chunk is empty
RECURSIVE ChunksFrom(_, _, _)
ChunksFrom(off, total, size) ==
  IF off >= total THEN <<>>
  ELSE <<[off |-> off, len |-> IF total - off < size THEN total - off ELSE size]>>
       \o ChunksFrom(off + size, total, size)

RowsPerBand(bounds, threads) == bounds[2] \div threads + 1

\* variant of ChunkSize that counts rows, not bytes
ChunkSizeInRows(rows_per_band, bounds) == rows_per_band

ChunkSize(rows_per_band, bounds) == rows_per_band * bounds[1]

BandTop(rows_per_band, i) == rows_per_band * i

\* variant of BandHeight that counts a row too many
BandHeightRoundedUp(len, bounds) == len \div bounds[1] + 1

BandHeight(len, bounds) == len \div bounds[1]

\* the (upper_left, lower_right) pairs given on the command line
Viewports ==
  { <<Cx(Dec(-1, 1), Dec(1, 1)), Cx(Dec(1, 1), Dec(-1, 1))>>,
    <<Cx(Dec(-2, 1), Dec(1, 5)), Cx(Dec(-1, 2), Dec(-3, 2))>>,
    <<Cx(Dec(-120, 100), Dec(35, 100)), Cx(Dec(-1, 1), Dec(20, 100))>> }

\* the points render is called on for one command line: per band, the points
\* of its pixels
BandPoints(b, v, th) ==
  LET rpb == RowsPerBand(b, th)
      chunks == ChunksFrom(0, b[1] * b[2], ChunkSize(rpb, b))
  IN  UNION { LET top == BandTop(rpb, i - 1)
                  height == BandHeight(chunks[i].len, b)
                  ul == pixel_to_point(b, <<0, top>>, v[1], v[2])
                  lr == pixel_to_point(b, <<b[1], top + height>>, v[1], v[2])
              IN  { pixel_to_point(<<b[1], height>>, <<c, r>>, ul, lr) :
                      c \in 0..(b[1] - 1), r \in 0..(height - 1) } :
              i \in 1..Len(chunks) }

VARIABLES
  pc,             \* position of main
  bounds,         \* (width, height) from the command line
  upper_left,
  lower_right,
  threads,
  pixels,         \* the pixel buffer, 1-based
  rows_per_band,
  bands,          \* the chunks of the buffer, as [off, len]
  tasks,          \* the render tasks spawned so far, in band order
  writes,         \* per byte of the buffer, the tasks that stored to it, in order
  image,          \* the buffer handed to write_image, None before
  byte_of,        \* PixelByte of the points of this run, computed once
  call            \* the last direct call of a pure function (PureSpec only)

vars == <<pc, bounds, upper_left, lower_right, threads, pixels, rows_per_band,
          bands, tasks, writes, image, byte_of, call>>

NoCall == [fn |-> "none"]

Init ==
  /\ pc = "start"
  /\ bounds \in (1..MaxWidth) \X (1..MaxHeight)
  /\ \E v \in Viewports : upper_left = v[1] /\ lower_right = v[2]
  /\ threads \in 1..MaxThreads
  /\ pixels = <<>>
  /\ rows_per_band = 0
  /\ bands = <<>>
  /\ tasks = <<>>
  /\ writes = <<>>
  /\ image = None
  /\ byte_of = [p \in BandPoints(bounds, <<upper_left, lower_right>>, threads) |->
                  PixelByte(p)]
  /\ call = NoCall

\* the byte render stores for one point: PixelByte(point), taken from byte_of
StoredByte(point) ==
  IF point \in DOMAIN byte_of THEN byte_of[point] ELSE PixelByte(point)

\* lines 24-30: allocate the buffer and cut it into bands
Allocate ==
  /\ pc = "start"
  /\ pixels' = [k \in 1..(bounds[1] * bounds[2]) |-> 0]
  /\ writes' = [k \in 1..(bounds[1] * bounds[2]) |-> <<>>]
  /\ rows_per_band' = RowsPerBand(bounds, threads)
  /\ bands' = ChunksFrom(0, bounds[1] * bounds[2],
                         ChunkSize(RowsPerBand(bounds, threads), bounds))
  /\ pc' = "spawn"
  /\ UNCHANGED <<bounds, upper_left, lower_right, threads, tasks, image, byte_of, call>>

\* lines 32-44: one pass of the for-loop, spawning the task of the next band
Spawn ==
  /\ pc = "spawn"
  /\ Len(tasks) < Len(bands)
  /\ LET i == Len(tasks)
         band == bands[i + 1]
         top == BandTop(rows_per_band, i)
         height == BandHeight(band.len, bounds)
     IN  tasks' = Append(tasks,
           [st |-> "spawned", off |-> band.off, len |-> band.len, top |-> top,
            bounds |-> <<bounds[1], height>>,
            upper_left |-> pixel_to_point(bounds, <<0, top>>, upper_left, lower_right),
            lower_right |-> pixel_to_point(bounds, <<bounds[1], top + height>>,
                                           upper_left, lower_right),
            row |-> 0, column |-> 0])
  /\ UNCHANGED <<pc, bounds, upper_left, lower_right, threads, pixels,
                 rows_per_band, bands, writes, image, byte_of, call>>

\* line 176: the assertion at the head of render
RenderAssert(t) ==
  /\ t \in 1..Len(tasks)
  /\ tasks[t].st = "spawned"
  /\ LET T == tasks[t]
     IN  tasks' = [tasks EXCEPT ![t].st =
           IF T.len # T.bounds[1] * T.bounds[2] THEN "panicked"
           ELSE IF T.bounds[1] = 0 \/ T.bounds[2] = 0 THEN "done"
           ELSE "loop"]
  /\ UNCHANGED <<pc, bounds, upper_left, lower_right, threads, pixels,
                 rows_per_band, bands, writes, image, byte_of, call>>

\* lines 178-186: one pass of the inner loop body, storing one pixel
RenderPixel(t) ==
  /\ t \in 1..Len(tasks)
  /\ tasks[t].st = "loop"
  /\ LET T == tasks[t]
         idx == PixelIndex(T.bounds, T.row, T.column)
         point == pixel_to_point(T.bounds, <<T.column, T.row>>, T.upper_left, T.lower_right)
         lastcol == T.column + 1 = T.bounds[1]
         lastrow == T.row + 1 = T.bounds[2]
     IN  IF idx >= T.len
         THEN /\ tasks' = [tasks EXCEPT ![t].st = "panicked"]
              /\ UNCHANGED <<pixels, writes>>
         ELSE /\ pixels' = [pixels EXCEPT ![T.off + idx + 1] = StoredByte(point)]
              /\ writes' = [writes EXCEPT ![T.off + idx + 1] = Append(@, t)]
              /\ tasks' = [tasks EXCEPT
                   ![t].column = IF lastcol THEN 0 ELSE T.column + 1,
                   ![t].row = IF lastcol THEN T.row + 1 ELSE T.row,
                   ![t].st = IF lastcol /\ lastrow THEN "done" ELSE "loop"]
  /\ UNCHANGED <<pc, bounds, upper_left, lower_right, threads, rows_per_band,
                 bands, image, byte_of, call>>

Finished(T) == T.st \in {"done", "panicked"}

\* variant of ScopeResult that drops the Err of the scope
ScopeResultIgnoringPanics(ts) == "joined"

\* lines 45-46: crossbeam::scope joins every spawned thread, then reports a
\* panic of any of them as Err, which expect turns into a panic of main
ScopeResult(ts) == IF \E t \in 1..Len(ts) : ts[t].st = "panicked" THEN "fatal" ELSE "joined"

\* variant of Join that leaves the scope while tasks still run
JoinWithoutWaiting ==
  /\ pc = "spawn"
  /\ Len(tasks) = Len(bands)
  /\ pc' = ScopeResult(tasks)
  /\ UNCHANGED <<bounds, upper_left, lower_right, threads, pixels, rows_per_band,
                 bands, tasks, writes, image, byte_of, call>>

\* line 46: the scope returns once every spawned thread has ended
Join ==
  /\ pc = "spawn"
  /\ Len(tasks) = Len(bands)
  /\ \A t \in 1..Len(tasks) : Finished(tasks[t])
  /\ pc' = ScopeResult(tasks)
  /\ UNCHANGED <<bounds, upper_left, lower_right, threads, pixels, rows_per_band,
                 bands, tasks, writes, image, byte_of, call>>

\* line 49: write_image gets the buffer; creating or writing the file may fail
WriteImage ==
  /\ pc = "joined"
  /\ image' = Some(pixels)
  /\ \E ok \in BOOLEAN : pc' = IF ok THEN "exit" ELSE "io_error"
  /\ UNCHANGED <<bounds, upper_left, lower_right, threads, pixels, rows_per_band,
                 bands, tasks, writes, byte_of, call>>

Next ==
  \/ Allocate
  \/ Spawn
  \/ \E t \in 1..Len(tasks) : RenderAssert(t)
  \/ \E t \in 1..Len(tasks) : RenderPixel(t)
  \/ Join
  \/ WriteImage

Spec == Init /\ [][Next]_vars

\* the operating system schedules main and every spawned thread
FairSpec == Spec /\ WF_vars(Next)

\* a panic raised inside a render task at any point of its run
TaskPanic(t) ==
  /\ t \in 1..Len(tasks)
  /\ tasks[t].st \in {"spawned", "loop"}
  /\ tasks' = [tasks EXCEPT ![t].st = "panicked"]
  /\ UNCHANGED <<pc, bounds, upper_left, lower_right, threads, pixels,
                 rows_per_band, bands, writes, image, byte_of, call>>

FaultNext == Next \/ \E t \in 1..Len(tasks) : TaskPanic(t)

\* faults may or may not happen; the threads are scheduled as in FairSpec
FaultSpec == Init /\ [][FaultNext]_vars /\ WF_vars(Next)

\* ------------------------------------------- direct calls of the functions
\* the points escape_time is called with: a grid of step 1/4 around the set,
\* and two points a rounding step outside the circle of radius two
PurePoints ==
  { Cx(Dec(a, 4), Dec(b, 4)) : a, b \in -12..12 }
    \cup { Cx(Dec(2, 1), 1), Cx(1, Dec(-2, 1)) }

\* the bounds pixel_to_point is called with; (100, 100) is test_pixel_to_point's
PureBounds == ((1..MaxWidth) \X (1..MaxHeight)) \cup {<<100, 100>>}

PurePixels(b) ==
  IF b = <<100, 100>> THEN {0, 25, 50, 75, 100} \X {0, 25, 50, 75, 100}
  ELSE (0..b[1]) \X (0..b[2])

PureInit ==
  /\ pc = "pure"
  /\ bounds = <<1, 1>>
  /\ upper_left = Cx(0, 0)
  /\ lower_right = Cx(0, 0)
  /\ threads = 1
  /\ pixels = <<>>
  /\ rows_per_band = 0
  /\ bands = <<>>
  /\ tasks = <<>>
  /\ writes = <<>>
  /\ image = None
  /\ byte_of = <<>>
  /\ call = NoCall

CallEscapeTime ==
  /\ pc = "pure"
  /\ \E c \in PurePoints, limit \in 1..MaxLimit :
       call' = [fn |-> "escape_time", target |-> c, limit |-> limit,
                ret |-> escape_time(c, limit)]
  /\ pc' = "returned"
  /\ UNCHANGED <<bounds, upper_left, lower_right, threads, pixels,
                 rows_per_band, bands, tasks, writes, image, byte_of>>

CallPixelToPoint ==
  /\ pc = "pure"
  /\ \E b \in PureBounds, v \in Viewports :
       \E p \in PurePixels(b) :
         call' = [fn |-> "pixel_to_point", bounds |-> b, pixel |-> p,
                  upper_left |-> v[1], lower_right |-> v[2],
                  ret |-> pixel_to_point(b, p, v[1], v[2])]
  /\ pc' = "returned"
  /\ UNCHANGED <<bounds, upper_left, lower_right, threads, pixels,
                 rows_per_band, bands, tasks, writes, image, byte_of>>

PureNext == CallEscapeTime \/ CallPixelToPoint

PureSpec == PureInit /\ [][PureNext]_vars

\* ------------------------------------------------------------- properties
Started == pc \notin {"start", "pure"}

AllSpawned == Started /\ Len(tasks) = Len(bands)

Width == bounds[1]

Height == bounds[2]

Region(T) == T.off .. (T.off + T.len - 1)

Rows(T) == T.top .. (T.top + T.bounds[2] - 1)

\* C1: the bands partition the rows [0, height) exactly (contiguous, disjoint,
\* covering), and the region of band i is the bytes
\* [top_i * width, (top_i + rowCount_i) * width) with top_i = i * rowsPerBand
\* and rowsPerBand = floor(height / workerCount) + 1.
C1_BandsPartitionRows ==
  Started =>
    /\ rows_per_band = Height \div threads + 1
    /\ \A t \in 1..Len(tasks) :
         /\ tasks[t].top = (t - 1) * rows_per_band
         /\ tasks[t].bounds[1] = Width
         /\ Region(tasks[t]) =
              (tasks[t].top * Width) .. ((tasks[t].top + tasks[t].bounds[2]) * Width - 1)
         /\ t = 1 => tasks[t].top = 0
         /\ t > 1 => tasks[t].top = tasks[t - 1].top + tasks[t - 1].bounds[2]
         /\ \A u \in 1..Len(tasks) : u # t => Rows(tasks[t]) \cap Rows(tasks[u]) = {}
    /\ AllSpawned =>
         /\ UNION { Rows(tasks[t]) : t \in 1..Len(tasks) } = 0..(Height - 1)
         /\ tasks[Len(tasks)].top + tasks[Len(tasks)].bounds[2] = Height

\* C1 witness: all bands dispatched, several of them, the last one shorter
C1_Witness ==
  /\ AllSpawned
  /\ Len(tasks) >= 2
  /\ Width >= 2
  /\ tasks[Len(tasks)].bounds[2] < tasks[1].bounds[2]

\* C2 as stated: the number of bands, and of render tasks, equals workerCount.
C2_BandCountIsWorkerCount ==
  /\ Started => Len(bands) = threads
  /\ pc \in {"joined", "fatal", "exit", "io_error"} => Len(tasks) = threads

\* C2 amended: the number of bands, and of render tasks, is
\* ceil(height / rowsPerBand), between 1 and workerCount; one render task per
\* band; every band has at least one row.
C2_BandCount ==
  Started =>
    /\ Len(bands) = (Height + rows_per_band - 1) \div rows_per_band
    /\ Len(bands) >= 1
    /\ Len(bands) <= threads
    /\ \A b \in 1..Len(bands) : bands[b].len >= Width
    /\ Len(tasks) <= Len(bands)
    /\ \A t \in 1..Len(tasks) : tasks[t].off = bands[t].off /\ tasks[t].len = bands[t].len
    /\ pc \in {"joined", "fatal", "exit", "io_error"} => Len(tasks) = Len(bands)

\* C2 witness: the scope has joined fewer tasks than workerCount
C2_Witness == pc = "joined" /\ Len(tasks) < threads /\ Len(tasks) >= 2

\* C3: no byte of the buffer is accessed by more than one task: a task stores
\* only inside its own region, and the regions of distinct tasks are disjoint.
C3_NoSharedByte ==
  Started =>
    /\ \A k \in DOMAIN writes : \A a \in 1..Len(writes[k]) :
         /\ (k - 1) \in Region(tasks[writes[k][a]])
         /\ writes[k][a] = writes[k][1]
    /\ \A t, u \in 1..Len(tasks) : t # u => Region(tasks[t]) \cap Region(tasks[u]) = {}

\* C3 witness: two tasks are in the middle of their loops, each having stored
C3_Witness ==
  \E t, u \in 1..Len(tasks) :
    /\ t # u
    /\ tasks[t].st = "loop" /\ tasks[u].st = "loop"
    /\ \E k \in DOMAIN writes : writes[k] = <<t>>
    /\ \E k \in DOMAIN writes : writes[k] = <<u>>

\* C6: for every workerCount, also beyond height, nothing crashes: no task
\* panics, every slice lies inside the buffer, the divisors are non-zero,
\* render's assertion holds for every dispatched band, and a band of zero rows
\* stores nothing.
C6_NoCrash ==
  Started =>
    /\ pc # "fatal"
    /\ threads >= 1 /\ Width >= 1 /\ Height >= 1
    /\ \A t \in 1..Len(tasks) :
         /\ tasks[t].st # "panicked"
         /\ tasks[t].len = tasks[t].bounds[1] * tasks[t].bounds[2]
         /\ tasks[t].off >= 0 /\ tasks[t].len >= 0
         /\ tasks[t].off + tasks[t].len <= Width * Height
         /\ tasks[t].st = "loop" => tasks[t].bounds[1] >= 1 /\ tasks[t].bounds[2] >= 1
         /\ tasks[t].bounds[2] = 0 => \A k \in DOMAIN writes : writes[k] = <<>>

\* C6 witness: more workers than rows, every task has returned
C6_Witness == pc = "joined" /\ threads > Height /\ Height >= 2

AllDone == AllSpawned /\ \A t \in 1..Len(tasks) : tasks[t].st = "done"

AnyPanicked == \E t \in 1..Len(tasks) : tasks[t].st = "panicked"

\* C4: write_image gets the buffer only after every spawned render task has
\* completed; each of the width * height pixels has then been stored by
\* exactly one task; and with fair scheduling that point is reached.
C4_EncoderAfterJoin ==
  /\ [](image # None =>
          /\ AllDone
          /\ image = Some(pixels)
          /\ DOMAIN writes = 1..(Width * Height)
          /\ \A k \in DOMAIN writes : Len(writes[k]) = 1)
  /\ <>(image # None)

\* C4 witness: the encoder got a buffer that several tasks filled
C4_Witness == image # None /\ Len(tasks) >= 3 /\ pc = "exit"

\* C7: if a render task fails, main ends in the fatal state, after all tasks
\* were joined, and write_image is never called.
C7_FailureIsFatal ==
  /\ [](AnyPanicked => image = None /\ pc \in {"spawn", "fatal"})
  /\ [](pc = "fatal" =>
          AllSpawned /\ AnyPanicked /\ \A t \in 1..Len(tasks) : Finished(tasks[t]))
  /\ (AnyPanicked ~> pc = "fatal")

\* C7 witness: one task failed, another one had filled its band, main is dead
C7_Witness ==
  /\ pc = "fatal"
  /\ \E t, u \in 1..Len(tasks) : tasks[t].st = "panicked" /\ tasks[u].st = "done"
  /\ image = None

\* the store of one step to byte k, by the task that made it
StoreIsRight(k) ==
  LET t == writes'[k][Len(writes'[k])]
      T == tasks[t]
  IN  /\ k - 1 - T.off = T.row * T.bounds[1] + T.column
      /\ T.row \in 0..(T.bounds[2] - 1)
      /\ T.column \in 0..(T.bounds[1] - 1)
      /\ \A e \in {escape_time(pixel_to_point(T.bounds, <<T.column, T.row>>,
                                              T.upper_left, T.lower_right), 255)} :
           /\ e = None => pixels'[k] = 0
           /\ e # None => e[1] \in 0..254 /\ pixels'[k] = 255 - e[1]
                                          /\ pixels'[k] \in 1..255
      /\ \A j \in DOMAIN pixels : j # k => pixels'[j] = pixels[j]

\* C8: render stores to every index row * width + column of its region
\* exactly once, the byte 0 when escape_time(point, 255) is None and
\* 255 - count otherwise; count is in 0..254, nothing wraps, and so the byte is
\* 0 exactly when the point did not escape and in 1..255 otherwise.
C8_RenderStores ==
  /\ [](\A k \in DOMAIN writes : Len(writes[k]) <= 1)
  /\ [](\A t \in 1..Len(tasks) : tasks[t].st = "done" =>
          \A k \in Region(tasks[t]) : writes[k + 1] = <<t>>)
  /\ [][\A k \in DOMAIN writes : writes'[k] # writes[k] => StoreIsRight(k)]_vars

\* C8 witness: a finished render holding a byte of each kind
C8_Witness ==
  /\ pc = "joined"
  /\ \E k \in DOMAIN pixels : pixels[k] = 0 /\ writes[k] # <<>>
  /\ \E k \in DOMAIN pixels : pixels[k] \in 1..254

\* the image main produces with th threads, pixel by pixel
ImageWith(b, v, th) ==
  LET rpb == RowsPerBand(b, th)
      chunks == ChunksFrom(0, b[1] * b[2], ChunkSize(rpb, b))
  IN  [k \in 1..(b[1] * b[2]) |->
        LET i == CHOOSE j \in 1..Len(chunks) :
                   (k - 1) \in chunks[j].off .. (chunks[j].off + chunks[j].len - 1)
            top == BandTop(rpb, i - 1)
            height == BandHeight(chunks[i].len, b)
            ul == pixel_to_point(b, <<0, top>>, v[1], v[2])
            lr == pixel_to_point(b, <<b[1], top + height>>, v[1], v[2])
            local == k - 1 - chunks[i].off
        IN  PixelByte(pixel_to_point(<<b[1], height>>,
                                     <<local % b[1], local \div b[1]>>, ul, lr))]

\* render called once on the whole buffer with the bounds and the viewport
SequentialImage(b, v) ==
  [k \in 1..(b[1] * b[2]) |->
    PixelByte(pixel_to_point(b, <<(k - 1) % b[1], (k - 1) \div b[1]>>, v[1], v[2]))]

\* C5: the finished buffer is the same for any two worker counts and is that
\* of a sequential single-band render of the whole image; the point a band
\* computes for its local pixel (column, row) is the point the full image
\* assigns to (column, top + row).
C5_SameImageForAnyWorkerCount ==
  /\ pc = "joined" =>
       /\ \A th \in 1..MaxThreads :
            pixels = ImageWith(bounds, <<upper_left, lower_right>>, th)
       /\ pixels = SequentialImage(bounds, <<upper_left, lower_right>>)
  /\ \A t \in 1..Len(tasks) :
       \A c \in 0..(tasks[t].bounds[1] - 1), r \in 0..(tasks[t].bounds[2] - 1) :
         pixel_to_point(tasks[t].bounds, <<c, r>>,
                        tasks[t].upper_left, tasks[t].lower_right)
           = pixel_to_point(bounds, <<c, tasks[t].top + r>>, upper_left, lower_right)

\* z after n passes of the loop of escape_time, computed as the loop does
RECURSIVE Orbit(_, _)
Orbit(c, n) ==
  IF n = 0 THEN Cx(0, 0)
  ELSE CHOOSE r \in { CAdd(CMul(z, z), c) : z \in {Orbit(c, n - 1)} } : TRUE

\* the squared magnitude, as norm_sqr computes it, exceeds 4 after the update
\* of the pass with index i
Escaped(c, i) == NormSqr(Orbit(c, i + 1)) > Four

Quantum(x) == Pow2(QuantumExp(Abs(x)))

Max(x, y) == IF x > y THEN x ELSE y

\* ret is within 8 quanta of from + index * (to - from) / count
Interpolates(ret, from, to, index, count) ==
  Abs(ret * count - (from * count + index * (to - from)))
    <= 8 * count * Quantum(Max(Abs(from), Abs(to)))

\* to - from and count * (to - from) are floats, so nothing is rounded on
\* the way to the far corner
ExactSpan(from, to, count) ==
  /\ FSub(to, from) = to - from
  /\ Rnd(count * (to - from), 1) = count * (to - from)

IsTestCall ==
  /\ call.bounds = <<100, 100>>
  /\ call.pixel = <<25, 75>>
  /\ call.upper_left = Cx(Dec(-1, 1), Dec(1, 1))
  /\ call.lower_right = Cx(Dec(1, 1), Dec(-1, 1))

\* C10 as stated: pixel_to_point maps (0, 0) to upper_left, (width, height) to
\* lower_right, and (25, 75) of (100, 100) over -1+1i .. 1-1i to -0.5-0.5i.
C10_CornersAreExact ==
  call.fn = "pixel_to_point" =>
    /\ call.pixel = <<0, 0>> => call.ret = call.upper_left
    /\ call.pixel = call.bounds => call.ret = call.lower_right
    /\ IsTestCall => call.ret = Cx(Dec(-1, 2), Dec(-1, 2))

\* C10 amended: pixel_to_point returns the linear interpolation up to
\* rounding (8 quanta of the larger corner coordinate); it maps (0, 0) to
\* upper_left and the test pixel to -0.5-0.5i exactly, and (width, height) to
\* lower_right exactly when the spans and their multiples by the bounds are
\* floats.
C10_PixelToPoint ==
  call.fn = "pixel_to_point" =>
    /\ Interpolates(call.ret.re, call.upper_left.re, call.lower_right.re,
                    call.pixel[1], call.bounds[1])
    /\ Interpolates(call.ret.im, call.upper_left.im, call.lower_right.im,
                    call.pixel[2], call.bounds[2])
    /\ call.pixel = <<0, 0>> => call.ret = call.upper_left
    /\ IsTestCall => call.ret = Cx(Dec(-1, 2), Dec(-1, 2))
    /\ call.pixel = call.bounds =>
         /\ ExactSpan(call.upper_left.re, call.lower_right.re, call.bounds[1]) =>
              call.ret.re = call.lower_right.re
         /\ ExactSpan(call.upper_left.im, call.lower_right.im, call.bounds[2]) =>
              call.ret.im = call.lower_right.im

\* C10 witness: the far corner of a 100 x 100 image over exact spans
C10_Witness ==
  /\ call.fn = "pixel_to_point"
  /\ call.bounds = <<100, 100>>
  /\ call.pixel = call.bounds
  /\ ExactSpan(call.upper_left.re, call.lower_right.re, call.bounds[1])
  /\ ExactSpan(call.upper_left.im, call.lower_right.im, call.bounds[2])
  /\ call.ret = call.lower_right
====
